---------------------------- MODULE Spec2Model ----------------------------
(***************************************************************************)
(* A model of the duplicate file finder (find_del_duplicates.py and its    *)
(* report-only twin del_duplicate.py).                                     *)
(*                                                                         *)
(* Strings (paths, file contents, digests, trash names) are sequences of   *)
(* character codes, so that len(), basename(), string formatting and       *)
(* lexical comparison are computed on them as Python computes them.        *)
(* Python dicts are insertion-ordered: a dict is a sequence of records     *)
(* [k |-> key, v |-> value].  Python's sort is stable: StableSort.         *)
(*                                                                         *)
(* Three specifications share the variables:                               *)
(*   SpecScan    find_duplicates                                           *)
(*   SpecReport  write_results                                             *)
(*   SpecDelete  main's deletion dispatch: auto_delete, interactive_delete *)
(*               and delete_file                                           *)
(***************************************************************************)
EXTENDS Integers, Sequences, FiniteSets, TLC

VARIABLES
    pc,             \* position of the program
    fs,             \* the file system: path -> File(content, mtime) or NoFile
    statFail,       \* paths on which os.path.getsize raises OSError in the scan
    readFail,       \* paths on which open()/read() raises in get_file_hash
    min_size,       \* find_duplicates' min_size argument
    walk,           \* the order in which os.walk yields the files
    size_map,       \* find_duplicates: size -> list of paths
    hash_map,       \* find_duplicates: digest -> list of paths
    hashed,         \* the paths get_file_hash was called on, in call order
    duplicates,     \* the dict find_duplicates returns: digest -> list of paths
    report,         \* write_results: what was written and returned
    delete_arg,     \* main: args.delete ("direct" for a direct call of auto_delete)
    keep_strategy,  \* auto_delete: keep_strategy
    use_trash,      \* delete_file: use_trash
    order,          \* the deletion run's iteration order over the groups
    gi,             \* index in order of the group being processed
    info,           \* paths_with_info / paths_with_mtime of the current group
    todo,           \* index in info of the next file of a running batch loop
    files_deleted,  \* the running total files_deleted
    space_freed,    \* the running total space_freed
    calls,          \* every delete_file call so far, with what it returned
    trash,          \* ~/.duplicate_trash: the set of [name, content] of its files
    clock,          \* the wall clock, in seconds
    ncmds,          \* the number of commands the user has typed
    typed           \* the commands the user has typed, in order

vars == <<pc, fs, statFail, readFail, min_size, walk, size_map, hash_map,
          hashed, duplicates, report, delete_arg, keep_strategy, use_trash,
          order, gi, info, todo, files_deleted, space_freed, calls, trash,
          clock, ncmds, typed>>

scanVars   == <<statFail, readFail, min_size, walk, size_map, hash_map, hashed>>
deleteVars == <<delete_arg, keep_strategy, use_trash, order, gi, info, todo,
                files_deleted, space_freed, calls, trash, clock, ncmds, typed>>

(***************************************************************************)
(* Bounds of the model.                                                    *)
(***************************************************************************)
MaxMinSize == 2      \* min_size ranges over 0..MaxMinSize
MaxFaults  == 1      \* operations the operating system refuses in one run
MaxMtime   == 2      \* modification times range over 1..MaxMtime
MaxMissing == 1      \* files removed between the scan and the report/decision
MaxClock   == 1      \* the clock's seconds range over 0..MaxClock
MaxCmds    == 2      \* commands typed in one interactive run

(***************************************************************************)
(* Strings as sequences of character codes.                                *)
(***************************************************************************)
Slash      == 47     \* "/"
Underscore == 95     \* "_"
Digit0     == 48     \* "0"

PathAX  == <<97, 47, 120>>              \* "a/x"
PathA1X == <<97, 47, 49, 95, 120>>      \* "a/1_x"
PathBX  == <<98, 47, 120>>              \* "b/x"
PathCCX == <<99, 99, 47, 120>>          \* "cc/x"
PathBY  == <<98, 47, 121>>              \* "b/y"
Paths   == {PathAX, PathA1X, PathBX, PathCCX}
\* Five files can make two groups of different member counts.
ReportPaths == Paths \cup {PathBY}

Content1  == <<49>>                     \* b"1"
Content2  == <<50>>                     \* b"2"
Content11 == <<49, 49>>                 \* b"11"
Contents  == {Content1, Content2, Content11}
Content0  == <<>>                       \* b"", the empty file
\* The contents of the files a scan meets: an empty file is below every
\* min_size but 0.
ScanContents == Contents \cup {Content0}

\* What the file system holds at a path where there is no file.
NoFile == [exists |-> FALSE, content |-> <<>>, mtime |-> 0]

\* A file of the file system.
File(c, t) == [exists |-> TRUE, content |-> c, mtime |-> t]
None   == "None"

Min(a, b) == IF a <= b THEN a ELSE b

\* s < t in Python's string order: code point by code point, a proper prefix first.
LexLess(s, t) ==
    \E i \in 1..(Min(Len(s), Len(t)) + 1) :
        /\ \A j \in 1..(i - 1) : s[j] = t[j]
        /\ \/ i = Len(s) + 1 /\ i <= Len(t)
           \/ i <= Len(s) /\ i <= Len(t) /\ s[i] < t[i]

\* os.path.basename: what follows the last "/".
Basename(p) ==
    LET cut == IF \E i \in 1..Len(p) : p[i] = Slash
               THEN CHOOSE i \in 1..Len(p) :
                        p[i] = Slash /\ \A j \in (i + 1)..Len(p) : p[j] # Slash
               ELSE 0
    IN  SubSeq(p, cut + 1, Len(p))

\* os.path.dirname: what precedes the last "/".
Dirname(p) == SubSeq(p, 1, Len(p) - Len(Basename(p)) - 1)

\* str(n) for 0 <= n <= 99.
Str(n) == IF n < 10 THEN <<Digit0 + n>> ELSE <<Digit0 + (n \div 10), Digit0 + (n % 10)>>

\* The position of x in the sequence s.
IndexOf(s, x) == CHOOSE i \in 1..Len(s) : s[i] = x

\* The elements of a sequence.
Range(s) == {s[i] : i \in 1..Len(s)}

\* list.sort(key=...) and sorted(..., key=...): ascending in the key, and stable:
\* elements with equal keys keep their order.  key[i] is the key of s[i].
StableSort(s, key) ==
    LET rank(i) == Cardinality({j \in 1..Len(s) :
                        key[j] < key[i] \/ (key[j] = key[i] /\ j < i)}) + 1
    IN  [k \in 1..Len(s) |-> s[CHOOSE i \in 1..Len(s) : rank(i) = k]]

(***************************************************************************)
(* Insertion-ordered dicts of lists (collections.defaultdict(list)).       *)
(***************************************************************************)
HasKey(d, k) == \E i \in 1..Len(d) : d[i].k = k

Get(d, k) == d[CHOOSE i \in 1..Len(d) : d[i].k = k].v

\* A variant of DictAppend that overwrites the list instead of appending to it.
DictAppendOverwrite(d, k, x) ==
    IF HasKey(d, k)
    THEN [i \in 1..Len(d) |-> IF d[i].k = k THEN [k |-> k, v |-> <<x>>] ELSE d[i]]
    ELSE Append(d, [k |-> k, v |-> <<x>>])

\* d[k].append(x)
DictAppend(d, k, x) ==
    IF HasKey(d, k)
    THEN [i \in 1..Len(d) |-> IF d[i].k = k THEN [k |-> k, v |-> Append(d[i].v, x)] ELSE d[i]]
    ELSE Append(d, [k |-> k, v |-> <<x>>])

\* {k: v for k, v in d.items() if len(v) > 1}
MoreThanOne(d) == SelectSeq(d, LAMBDA e : Len(e.v) > 1)

(***************************************************************************)
(* get_file_hash                                                           *)
(***************************************************************************)
\* hashlib.md5(content).hexdigest(), cut to its first two characters:
\* md5(b"1") = c4ca..., md5(b"2") = c81e..., md5(b"11") = 6512...,
\* md5(b"") = d41d...
Md5(content) ==
    CASE content = Content1  -> <<99, 52>>
      [] content = Content2  -> <<99, 56>>
      [] content = Content11 -> <<54, 53>>
      [] content = Content0  -> <<100, 52>>

\* What get_file_hash returns when the file cannot be read (None: falsy, as is "").
NoDigest == <<>>

\* The digest of the file, or None when the file cannot be read.
get_file_hash(fsys, noread, p) ==
    IF p \in noread \/ ~fsys[p].exists THEN NoDigest ELSE Md5(fsys[p].content)

\* os.path.getsize
getsize(fsys, p) == Len(fsys[p].content)

(***************************************************************************)
(* find_duplicates                                                         *)
(***************************************************************************)
\* First pass: the files of the walk w bucketed by size.
RECURSIVE FirstPass(_, _, _, _, _)
FirstPass(w, fsys, nostat, m, acc) ==
    IF w = <<>> THEN acc
    ELSE LET p == Head(w) IN
         IF p \in nostat \/ ~fsys[p].exists
         THEN FirstPass(Tail(w), fsys, nostat, m, acc)     \* OSError: skipped
         ELSE IF getsize(fsys, p) >= m
              THEN FirstPass(Tail(w), fsys, nostat, m, DictAppend(acc, getsize(fsys, p), p))
              ELSE FirstPass(Tail(w), fsys, nostat, m, acc)

\* A variant of potential_duplicates that keeps every size bucket.
PotentialDuplicatesUnfiltered(smap) == smap

\* potential_duplicates: the size buckets of more than one file.
PotentialDuplicates(smap) == MoreThanOne(smap)

\* The paths of the buckets, in the order the second pass visits them.
RECURSIVE Flatten(_)
Flatten(d) == IF d = <<>> THEN <<>> ELSE Head(d).v \o Flatten(Tail(d))

\* Second pass: the files ps, hashed and bucketed by digest.
RECURSIVE SecondPass(_, _, _, _)
SecondPass(ps, fsys, noread, acc) ==
    IF ps = <<>> THEN acc
    ELSE LET h == get_file_hash(fsys, noread, Head(ps)) IN
         IF h # NoDigest                                   \* if file_hash:
         THEN SecondPass(Tail(ps), fsys, noread, DictAppend(acc, h, Head(ps)))
         ELSE SecondPass(Tail(ps), fsys, noread, acc)

\* The whole of find_duplicates.
find_duplicates(w, fsys, nostat, noread, m) ==
    MoreThanOne(SecondPass(Flatten(PotentialDuplicates(FirstPass(w, fsys, nostat, m, <<>>))),
                           fsys, noread, <<>>))

\* The orders in which os.walk can yield the files: directory by directory, the
\* directories and the files of one directory in any order.
WalksOf(P) ==
    {w \in [1..Cardinality(P) -> P] :
        /\ \A i, j \in DOMAIN w : i # j => w[i] # w[j]
        /\ \A i, j, k \in DOMAIN w :
              (i < j /\ j < k /\ Dirname(w[i]) = Dirname(w[k])) => Dirname(w[j]) = Dirname(w[i])}

Walks == WalksOf(Paths)

InitScan ==
    /\ pc = "scan"
    /\ fs \in [Paths -> {File(c, 1) : c \in ScanContents}]
    /\ walk \in Walks
    /\ min_size \in 0..MaxMinSize
    /\ statFail \in SUBSET Paths
    /\ readFail \in SUBSET Paths
    /\ statFail \cap readFail = {}
    /\ Cardinality(statFail \cup readFail) <= MaxFaults
    /\ size_map = <<>> /\ hash_map = <<>> /\ hashed = <<>>
    /\ duplicates = <<>>
    /\ report = None
    /\ delete_arg = None /\ keep_strategy = None /\ use_trash = TRUE
    /\ order = <<>> /\ gi = 0 /\ info = <<>> /\ todo = 0
    /\ files_deleted = 0 /\ space_freed = 0 /\ calls = <<>>
    /\ trash = {} /\ clock = 0 /\ ncmds = 0 /\ typed = <<>>

\* Lines 49-58: the walk.
ScanWalk ==
    /\ pc = "scan"
    /\ size_map' = FirstPass(walk, fs, statFail, min_size, <<>>)
    /\ pc' = "hash"
    /\ UNCHANGED <<fs, statFail, readFail, min_size, walk, hash_map, hashed,
                   duplicates, report, deleteVars>>

\* Lines 63-77: the hashing of the potential duplicates.
ScanHash ==
    /\ pc = "hash"
    /\ hashed' = Flatten(PotentialDuplicates(size_map))
    /\ hash_map' = SecondPass(hashed', fs, readFail, <<>>)
    /\ pc' = "filter"
    /\ UNCHANGED <<fs, statFail, readFail, min_size, walk, size_map,
                   duplicates, report, deleteVars>>

\* Lines 80-82: the groups of more than one file are returned.
ScanReturn ==
    /\ pc = "filter"
    /\ duplicates' = MoreThanOne(hash_map)
    /\ pc' = "scanned"
    /\ UNCHANGED <<fs, statFail, readFail, min_size, walk, size_map, hash_map,
                   hashed, report, deleteVars>>

NextScan == ScanWalk \/ ScanHash \/ ScanReturn

SpecScan == InitScan /\ [][NextScan]_vars

(***************************************************************************)
(* Claims about find_duplicates (SpecScan).                                *)
(***************************************************************************)
\* p and q are members of one returned group.
SameGroup(p, q) ==
    \E i \in 1..Len(duplicates) : {p, q} \subseteq Range(duplicates[i].v)

\* No returned group holds two files of different content.
GroupsAreUniform ==
    \A i \in 1..Len(duplicates) : \A p, q \in Range(duplicates[i].v) :
        fs[p].content = fs[q].content

Readable(p) == p \notin statFail /\ p \notin readFail

\* C1 as stated: when find_duplicates has returned, every two files of identical
\* content and of size >= min_size are in one returned group, and no returned
\* group holds two files of different content.
C1_AllIdenticalFilesGrouped ==
    pc = "scanned" =>
        /\ \A p, q \in Paths :
              (p # q /\ fs[p].content = fs[q].content /\ getsize(fs, p) >= min_size)
                  => SameGroup(p, q)
        /\ GroupsAreUniform

\* C1 as amended: the same, for every two files whose size and content could
\* both be read during the scan; a file that could not be read is in no group.
C1_ReadableIdenticalFilesGrouped ==
    pc = "scanned" =>
        /\ \A p, q \in Paths :
              (p # q /\ fs[p].content = fs[q].content /\ getsize(fs, p) >= min_size
                     /\ Readable(p) /\ Readable(q))
                  => SameGroup(p, q)
        /\ \A p \in Paths : ~Readable(p) => ~SameGroup(p, p)
        /\ GroupsAreUniform

\* C1's case: a scan that returned a group, while a file of the same size as the
\* group's files and of different content was hashed and left out of it.
C1_Witness ==
    /\ pc = "scanned"
    /\ \E p, q, r \in Paths :
          /\ p # q /\ SameGroup(p, q)
          /\ r \in Range(hashed) /\ getsize(fs, r) = getsize(fs, p)
          /\ fs[r].content # fs[p].content /\ ~SameGroup(r, r)

\* The files get_file_hash was called on.
Hashed == Range(hashed)

\* The files whose size the first pass read: the walk's files but those on
\* which os.path.getsize raised.
Scanned == Range(walk) \ statFail

\* The files of the size buckets.
Bucketed == UNION {Range(size_map[i].v) : i \in 1..Len(size_map)}

\* C11: get_file_hash is called on a file only if the file's size is >= min_size
\* and another scanned file (of size >= min_size, then) has the same size; a file
\* below min_size is in no size bucket; a file alone in its size bucket is never
\* hashed.
C11_OnlySharedSizesAreHashed ==
    /\ \A p \in Hashed :
          /\ p \in Scanned /\ getsize(fs, p) >= min_size
          /\ \E q \in Scanned \ {p} :
                getsize(fs, q) = getsize(fs, p) /\ getsize(fs, q) >= min_size
    /\ \A p \in Paths : getsize(fs, p) < min_size => p \notin Bucketed
    /\ \A i \in 1..Len(size_map) :
          Len(size_map[i].v) = 1 => size_map[i].v[1] \notin Hashed

\* C11's case: a finished scan that hashed two files of one size, left a file
\* alone in its size bucket unhashed, and met a file below min_size.
C11_Witness ==
    /\ pc = "scanned"
    /\ Hashed # {}
    /\ \E i \in 1..Len(size_map) : Len(size_map[i].v) = 1
    /\ \E p \in Paths : getsize(fs, p) < min_size

(***************************************************************************)
(* write_results                                                           *)
(***************************************************************************)
\* The file system after the files of gone were removed.
Remove(fsys, gone) == [p \in DOMAIN fsys |-> IF p \in gone THEN NoFile ELSE fsys[p]]

\* sum(f[i] for i in 1..n)
RECURSIVE Sum(_, _)
Sum(f, n) == IF n = 0 THEN 0 ELSE f[n] + Sum(f, n - 1)

\* One entry of paths_with_mtime: (p, mtime, size), or (p, 0, 0) when
\* os.path.getmtime / os.path.getsize raise OSError (except OSError: append (p, 0, 0)).
WithMtime(fsys, p) ==
    IF fsys[p].exists
    THEN [path |-> p, mtime |-> fsys[p].mtime, size |-> getsize(fsys, p)]
    ELSE [path |-> p, mtime |-> 0, size |-> 0]

\* paths_with_mtime after paths_with_mtime.sort(key=lambda x: x[1]).
PathsWithMtime(fsys, paths) ==
    LET pwm == [i \in 1..Len(paths) |-> WithMtime(fsys, paths[i])]
    IN  StableSort(pwm, [i \in 1..Len(pwm) |-> pwm[i].mtime])

\* The groups in ascending order of their member count.
BySizeAscending(dups) ==
    StableSort(dups, [i \in 1..Len(dups) |-> Len(dups[i].v)])

\* sorted(duplicates.items(), key=lambda x: -len(x[1]))
BySizeDescending(dups) ==
    StableSort(dups, [i \in 1..Len(dups) |-> 0 - Len(dups[i].v)])

\* What write_results writes for one group: the digest, the size shown, the
\* members in the order shown (the first is [ORIGINAL]) and the wasted space.
ReportGroup(fsys, g) ==
    LET pwm == PathsWithMtime(fsys, g.v)
        file_size == pwm[1].size
    IN  [hash |-> g.k, file_size |-> file_size, members |-> pwm,
         wasted_space |-> file_size * (Len(g.v) - 1)]

\* What write_results writes and returns.
write_results(fsys, dups) ==
    IF dups = <<>>
    THEN [empty |-> TRUE, groups |-> <<>>, total_groups |-> 0,
          total_duplicates |-> 0, total_wasted |-> 0]
    ELSE LET sorted == BySizeDescending(dups)
             groups == [i \in 1..Len(sorted) |-> ReportGroup(fsys, sorted[i])]
         IN  [empty |-> FALSE, groups |-> groups,
              total_groups |-> Len(dups),
              total_duplicates |-> Sum([i \in 1..Len(dups) |-> Len(dups[i].v) - 1], Len(dups)),
              total_wasted |-> Sum([i \in 1..Len(groups) |-> groups[i].wasted_space], Len(groups))]

\* The sets of files of P removed after the scan.
Removals(P) == {gone \in SUBSET P : Cardinality(gone) <= MaxMissing}

\* The file system of the files P with the contents cmap and the modification
\* times mt, but for the files of gone.
FileSystem(P, cmap, mt, gone) ==
    [p \in P |-> IF p \in gone THEN NoFile ELSE File(cmap[p], mt[p])]

\* main, lines 422-424: the scan's result is reported; files may have been
\* removed since they were scanned.
InitReport ==
    /\ pc = "report"
    /\ min_size = 0
    /\ \E w \in WalksOf(ReportPaths), cmap \in [ReportPaths -> Contents] :
          /\ duplicates = find_duplicates(w, FileSystem(ReportPaths, cmap, [p \in ReportPaths |-> 1], {}),
                                          {}, {}, min_size)
          /\ \E mt \in [ReportPaths -> 1..MaxMtime], gone \in Removals(ReportPaths) :
                fs = FileSystem(ReportPaths, cmap, mt, gone)
    /\ walk = <<>>
    /\ statFail = {} /\ readFail = {}
    /\ size_map = <<>> /\ hash_map = <<>> /\ hashed = <<>>
    /\ report = None
    /\ delete_arg = None /\ keep_strategy = None /\ use_trash = TRUE
    /\ order = <<>> /\ gi = 0 /\ info = <<>> /\ todo = 0
    /\ files_deleted = 0 /\ space_freed = 0 /\ calls = <<>>
    /\ trash = {} /\ clock = 0 /\ ncmds = 0 /\ typed = <<>>

WriteResults ==
    /\ pc = "report"
    /\ report' = write_results(fs, duplicates)
    /\ pc' = "reported"
    /\ UNCHANGED <<fs, scanVars, duplicates, deleteVars>>

NextReport == WriteResults

SpecReport == InitReport /\ [][NextReport]_vars

(***************************************************************************)
(* delete_file                                                             *)
(***************************************************************************)
\* datetime.now().strftime('%Y%m%d_%H%M%S') at second t of one minute: the
\* seconds' two digits (the date, hour and minute before them do not change).
Timestamp(t) == <<Digit0 + (t \div 10), Digit0 + (t % 10)>>

\* os.path.exists(trash_path)
InTrash(tr, name) == \E e \in tr : e.name = name

\* f"{timestamp}_{filename}"
TrashName(ts, filename) == ts \o <<Underscore>> \o filename

\* f"{timestamp}_{counter}_{filename}"
TrashNameCounted(ts, counter, filename) ==
    ts \o <<Underscore>> \o Str(counter) \o <<Underscore>> \o filename

\* The while loop of lines 178-181, entered with counter.
RECURSIVE CountUntilUnique(_, _, _, _)
CountUntilUnique(tr, ts, counter, filename) ==
    IF InTrash(tr, TrashNameCounted(ts, counter, filename))
    THEN CountUntilUnique(tr, ts, counter + 1, filename)
    ELSE TrashNameCounted(ts, counter, filename)

\* A variant of UniqueTrashPath without the while loop.
UniqueTrashPathUnchecked(tr, ts, filename) == TrashName(ts, filename)

\* Lines 173-181: the name the file gets in the trash.
UniqueTrashPath(tr, ts, filename) ==
    IF InTrash(tr, TrashName(ts, filename))
    THEN CountUntilUnique(tr, ts, 1, filename)
    ELSE TrashName(ts, filename)

NoPath == <<>>

\* The ways the operating system can make a delete_file call fail.
Refused == "refused"     \* the move or the removal raises before anything is done
Unlink  == "unlink"      \* shutil.move has copied the file to another device and
                         \* the removal of the source raises
NoFault == "none"

\* A variant of delete_file whose move leaves the file at its source path.
delete_file_copying(fsys, tr, now, p, ut, fault) ==
    IF fault = Refused \/ (fault = Unlink /\ ~ut) \/ ~fsys[p].exists
    THEN [ok |-> FALSE, msg |-> "Error", trash_path |-> NoPath, fresh |-> TRUE,
          fs |-> fsys, trash |-> tr]
    ELSE IF ut
         THEN LET trash_path == UniqueTrashPath(tr, Timestamp(now), Basename(p))
                  moved == {e \in tr : e.name # trash_path}
                             \cup {[name |-> trash_path, content |-> fsys[p].content]}
              IN  IF fault = Unlink
                  THEN [ok |-> FALSE, msg |-> "Error", trash_path |-> NoPath,
                        fresh |-> ~InTrash(tr, trash_path), fs |-> fsys, trash |-> moved]
                  ELSE [ok |-> TRUE, msg |-> "Moved to trash", trash_path |-> trash_path,
                        fresh |-> ~InTrash(tr, trash_path), fs |-> fsys, trash |-> moved]
         ELSE [ok |-> TRUE, msg |-> "Permanently deleted", trash_path |-> NoPath,
               fresh |-> TRUE, fs |-> Remove(fsys, {p}), trash |-> tr]

\* delete_file(p, ut) at second now, on the file system fsys with the trash tr,
\* under the fault the operating system makes.  A file that is not there makes
\* shutil.move and os.remove raise as well.  Any exception gives
\* (False, "Error: ...").  What the call returns (ok, msg, the trash path inside
\* msg), whether the trash path was free when it was chosen, and the file system
\* and the trash the call leaves.
delete_file(fsys, tr, now, p, ut, fault) ==
    IF fault = Refused \/ (fault = Unlink /\ ~ut) \/ ~fsys[p].exists
    THEN [ok |-> FALSE, msg |-> "Error", trash_path |-> NoPath, fresh |-> TRUE,
          fs |-> fsys, trash |-> tr]
    ELSE IF ut
         THEN LET trash_path == UniqueTrashPath(tr, Timestamp(now), Basename(p))
                  \* shutil.move onto an existing file replaces it
                  moved == {e \in tr : e.name # trash_path}
                             \cup {[name |-> trash_path, content |-> fsys[p].content]}
              IN  IF fault = Unlink
                  THEN [ok |-> FALSE, msg |-> "Error", trash_path |-> NoPath,
                        fresh |-> ~InTrash(tr, trash_path), fs |-> fsys, trash |-> moved]
                  ELSE [ok |-> TRUE, msg |-> "Moved to trash", trash_path |-> trash_path,
                        fresh |-> ~InTrash(tr, trash_path),
                        fs |-> Remove(fsys, {p}), trash |-> moved]
         ELSE [ok |-> TRUE, msg |-> "Permanently deleted", trash_path |-> NoPath,
               fresh |-> TRUE, fs |-> Remove(fsys, {p}), trash |-> tr]

(***************************************************************************)
(* auto_delete and interactive_delete                                      *)
(***************************************************************************)
\* One entry of auto_delete's paths_with_info: (p, mtime, size, len(p)).
WithInfo(fsys, p) ==
    [path |-> p, mtime |-> fsys[p].mtime, size |-> getsize(fsys, p), len |-> Len(p)]

\* Lines 320-327: the members whose metadata can be read, in the list's order.
PathsWithInfo(fsys, paths) ==
    LET readable == SelectSeq(paths, LAMBDA p : fsys[p].exists)
    IN  [i \in 1..Len(readable) |-> WithInfo(fsys, readable[i])]

\* A variant of SortByStrategy that sorts by ascending mtime for newest too.
SortByStrategyAscending(pwi, strategy) ==
    CASE strategy = "oldest" -> StableSort(pwi, [i \in 1..Len(pwi) |-> pwi[i].mtime])
      [] strategy = "newest" -> StableSort(pwi, [i \in 1..Len(pwi) |-> pwi[i].mtime])
      [] strategy = "shortest_path" -> StableSort(pwi, [i \in 1..Len(pwi) |-> pwi[i].len])
      [] OTHER -> pwi

\* Lines 333-338: paths_with_info sorted as keep_strategy asks; a strategy that
\* is none of the three leaves the list as it is.
SortByStrategy(pwi, strategy) ==
    CASE strategy = "oldest" -> StableSort(pwi, [i \in 1..Len(pwi) |-> pwi[i].mtime])
      [] strategy = "newest" -> StableSort(pwi, [i \in 1..Len(pwi) |-> 0 - pwi[i].mtime])
      [] strategy = "shortest_path" -> StableSort(pwi, [i \in 1..Len(pwi) |-> pwi[i].len])
      [] OTHER -> pwi

\* main, line 459: args.delete.replace('auto-', '')
StrategyOf(arg) ==
    CASE arg = "auto-oldest"   -> "oldest"
      [] arg = "auto-newest"   -> "newest"
      [] arg = "auto-shortest" -> "shortest"

\* keep_file = paths_with_info[0][0] and file_size = paths_with_info[0][2]
keep_file == info[1].path
file_size == info[1].size

\* The group being processed.
group == order[gi]

\* main, lines 422-464: the scan's result is not empty, the user has confirmed,
\* and the deletion is dispatched on args.delete; or auto_delete is called by
\* another program with the strategy its docstring names.  Files may have been
\* removed since they were scanned.
InitDelete ==
    /\ \E w \in Walks, cmap \in [Paths -> {Content1, Content2}] :
          \* which digest a group has plays no part in a deletion run: "a/x" is b"1"
          /\ cmap[PathAX] = Content1
          /\ duplicates = find_duplicates(w, FileSystem(Paths, cmap, [p \in Paths |-> 1], {}),
                                          {}, {}, 0)
          /\ \E mt \in [Paths -> 1..MaxMtime], gone \in Removals(Paths) :
                fs = FileSystem(Paths, cmap, mt, gone)
    /\ duplicates # <<>>
    /\ walk = <<>>
    /\ delete_arg \in {"interactive", "auto-oldest", "auto-newest", "auto-shortest", "direct"}
    /\ keep_strategy = CASE delete_arg = "interactive" -> None
                         [] delete_arg = "direct" -> "shortest_path"
                         [] OTHER -> StrategyOf(delete_arg)
    /\ use_trash \in BOOLEAN
    /\ pc = IF delete_arg = "interactive" THEN "interactive" ELSE "auto"
    /\ order = IF delete_arg = "interactive" THEN BySizeDescending(duplicates) ELSE duplicates
    /\ gi = 1 /\ info = <<>> /\ todo = 0
    /\ files_deleted = 0 /\ space_freed = 0 /\ calls = <<>>
    /\ trash = {} /\ clock = 0 /\ ncmds = 0 /\ typed = <<>>
    /\ statFail = {} /\ readFail = {} /\ min_size = 0
    /\ size_map = <<>> /\ hash_map = <<>> /\ hashed = <<>>
    /\ report = None

\* Line 251: a command read from the user: q, s, da, or anything else ...
Command(c) == [cmd |-> c]

\* ... and d <num>.
CommandD(num) == [cmd |-> "d", num |-> num]

\* A variant of FirstToRemove that starts the loop at the kept file.
FirstToRemoveFromZero == 2 - 1

\* paths_with_info[1:] and paths_with_mtime[1:] start after the kept file
\* (Python's index 1 is the second element).
FirstToRemove == 2

\* The number of delete_file calls the operating system has refused so far.
Faults == Cardinality({i \in 1..Len(calls) : calls[i].fault})

\* One delete_file call of the run, on info[i], made by the command cmd.  The
\* clock, read in trash mode only, may have moved on since the last call.
CallDeleteFile(i, cmd) ==
    \E now \in IF use_trash THEN clock..MaxClock ELSE {clock},
       fault \in IF Faults >= MaxFaults THEN {NoFault}
                 ELSE IF use_trash THEN {NoFault, Refused, Unlink} ELSE {NoFault, Refused} :
        LET r == delete_file(fs, trash, now, info[i].path, use_trash, fault) IN
        /\ clock' = now
        /\ fs' = r.fs
        /\ trash' = r.trash
        /\ files_deleted' = IF r.ok THEN files_deleted + 1 ELSE files_deleted
        /\ space_freed' = IF r.ok THEN space_freed + file_size ELSE space_freed
        /\ calls' = Append(calls,
              [path |-> info[i].path, keep |-> keep_file, gi |-> gi, index |-> i,
               cmd |-> cmd, fault |-> (fault # NoFault), ok |-> r.ok, msg |-> r.msg, trash_path |-> r.trash_path,
               fresh |-> r.fresh, content |-> fs[info[i].path].content,
               file_size |-> file_size, second |-> now])

\* auto_delete, lines 319-343: the next group's metadata is read and the file to
\* keep chosen; a group none of whose members can be read is passed over.
AutoDecide ==
    /\ pc = "auto"
    /\ gi <= Len(order)
    /\ LET pwi == PathsWithInfo(fs, group.v) IN
       IF pwi = <<>>
       THEN /\ gi' = gi + 1
            /\ UNCHANGED <<pc, info, todo>>
       ELSE /\ info' = SortByStrategy(pwi, keep_strategy)
            /\ todo' = FirstToRemove
            /\ pc' = "auto_loop"
            /\ UNCHANGED gi
    /\ UNCHANGED <<fs, scanVars, duplicates, report, delete_arg, keep_strategy,
                   use_trash, order, files_deleted, space_freed, calls, trash,
                   clock, ncmds, typed>>

\* A variant of BatchStep that gives up the batch at the first failure.
BatchStepStopping ==
    /\ pc \in {"auto_loop", "da_loop"}
    /\ todo <= Len(info)
    /\ CallDeleteFile(todo, IF pc = "auto_loop" THEN "auto" ELSE "da")
    /\ todo' = IF calls'[Len(calls')].ok THEN todo + 1 ELSE Len(info) + 1
    /\ UNCHANGED <<pc, scanVars, duplicates, report, delete_arg, keep_strategy,
                   use_trash, order, gi, info, ncmds, typed>>

\* Lines 346-353 and 264-271: one turn of the loop over the files to remove.
BatchStep ==
    /\ pc \in {"auto_loop", "da_loop"}
    /\ todo <= Len(info)
    /\ CallDeleteFile(todo, IF pc = "auto_loop" THEN "auto" ELSE "da")
    /\ todo' = todo + 1
    /\ UNCHANGED <<pc, scanVars, duplicates, report, delete_arg, keep_strategy,
                   use_trash, order, gi, info, ncmds, typed>>

\* The loop over the files to remove is over: on to the next group.
BatchEnd ==
    /\ pc \in {"auto_loop", "da_loop"}
    /\ todo > Len(info)
    /\ pc' = IF pc = "auto_loop" THEN "auto" ELSE "interactive"
    /\ gi' = gi + 1
    /\ UNCHANGED <<fs, scanVars, duplicates, report, delete_arg, keep_strategy,
                   use_trash, order, info, todo, files_deleted, space_freed,
                   calls, trash, clock, ncmds, typed>>

\* interactive_delete, lines 226-248: the next group is read and listed.
InteractiveShow ==
    /\ pc = "interactive"
    /\ gi <= Len(order)
    /\ info' = PathsWithMtime(fs, group.v)
    /\ todo' = 0
    /\ pc' = "prompt"
    /\ UNCHANGED <<fs, scanVars, duplicates, report, delete_arg, keep_strategy,
                   use_trash, order, gi, files_deleted, space_freed, calls,
                   trash, clock, ncmds, typed>>

\* A variant of CmdQuit that leaves the group as s does instead of returning.
CmdQuitSkipping ==
    /\ pc = "prompt"
    /\ pc' = "interactive"
    /\ gi' = gi + 1
    /\ ncmds' = ncmds + 1
    /\ typed' = Append(typed, Command("q"))
    /\ UNCHANGED <<fs, scanVars, duplicates, report, delete_arg, keep_strategy,
                   use_trash, order, info, todo, files_deleted, space_freed,
                   calls, trash, clock>>

\* Lines 253-255: q.
CmdQuit ==
    /\ pc = "prompt"
    /\ pc' = "done"
    /\ ncmds' = ncmds + 1
    /\ typed' = Append(typed, Command("q"))
    /\ UNCHANGED <<fs, scanVars, duplicates, report, delete_arg, keep_strategy,
                   use_trash, order, gi, info, todo, files_deleted, space_freed,
                   calls, trash, clock>>

\* Lines 257-258: s.
CmdSkip ==
    /\ pc = "prompt"
    /\ ncmds < MaxCmds
    /\ pc' = "interactive"
    /\ gi' = gi + 1
    /\ ncmds' = ncmds + 1
    /\ typed' = Append(typed, Command("s"))
    /\ UNCHANGED <<fs, scanVars, duplicates, report, delete_arg, keep_strategy,
                   use_trash, order, info, todo, files_deleted, space_freed,
                   calls, trash, clock>>

\* Lines 260-272: da, and the answer to "Delete n duplicates? [y/n]".
CmdDeleteAll ==
    /\ pc = "prompt"
    /\ ncmds < MaxCmds
    /\ ncmds' = ncmds + 1
    /\ typed' = Append(typed, Command("da"))
    /\ \E confirm \in {"y", "n"} :
          IF confirm = "y"
          THEN /\ todo' = FirstToRemove
               /\ pc' = "da_loop"
               /\ UNCHANGED gi
          ELSE /\ pc' = "interactive"
               /\ gi' = gi + 1
               /\ UNCHANGED todo
    /\ UNCHANGED <<fs, scanVars, duplicates, report, delete_arg, keep_strategy,
                   use_trash, order, info, files_deleted, space_freed, calls,
                   trash, clock>>

\* Lines 274-291: d <num>; num is any integer the user types.
CmdDelete ==
    /\ pc = "prompt"
    /\ ncmds < MaxCmds
    /\ ncmds' = ncmds + 1
    /\ \E num \in (0 - 1)..Len(info) :
          /\ typed' = Append(typed, CommandD(num))
          /\ IF num = 0
             THEN UNCHANGED <<fs, trash, clock, files_deleted, space_freed, calls>>
             ELSE IF 1 <= num /\ num < Len(info)
                  THEN CallDeleteFile(num + 1, "d")     \* paths_with_mtime[num]
                  ELSE UNCHANGED <<fs, trash, clock, files_deleted, space_freed, calls>>
    /\ UNCHANGED <<pc, scanVars, duplicates, report, delete_arg, keep_strategy,
                   use_trash, order, gi, info, todo>>

\* Lines 290-293: anything else is refused.
CmdInvalid ==
    /\ pc = "prompt"
    /\ ncmds < MaxCmds
    /\ ncmds' = ncmds + 1
    /\ typed' = Append(typed, Command("other"))
    /\ UNCHANGED <<pc, fs, scanVars, duplicates, report, delete_arg, keep_strategy,
                   use_trash, order, gi, info, todo, files_deleted, space_freed,
                   calls, trash, clock>>

\* Lines 297 and 355: every group was visited; the totals are returned.
Return ==
    /\ pc \in {"auto", "interactive"}
    /\ gi > Len(order)
    /\ pc' = "done"
    /\ UNCHANGED <<fs, scanVars, duplicates, report, deleteVars>>

NextDelete ==
    \/ AutoDecide
    \/ BatchStep
    \/ BatchEnd
    \/ InteractiveShow
    \/ CmdQuit
    \/ CmdSkip
    \/ CmdDeleteAll
    \/ CmdDelete
    \/ CmdInvalid
    \/ Return

SpecDelete == InitDelete /\ [][NextDelete]_vars

(***************************************************************************)
(* Claims about the deletion run (SpecDelete).                             *)
(***************************************************************************)
\* The calls made so far, as a set of indices.
Calls == 1..Len(calls)

\* No delete_file call was made yet for the group being processed: info is what
\* was just read from the file system.
JustDecided ==
    /\ pc \in {"auto_loop", "prompt"}
    /\ \A i \in Calls : calls[i].gi # gi

\* The members of the group being processed whose metadata can be read.
ReadableMembers == {p \in Range(group.v) : fs[p].exists}

\* C2: delete_file is never called on the file kept in the group being
\* processed, and only on members of that group.
C2_KeptFileIsNeverDeleted ==
    \A i \in Calls :
        /\ calls[i].path # calls[i].keep
        /\ calls[i].path \in Range(order[calls[i].gi].v)
        /\ calls[i].keep \in Range(order[calls[i].gi].v)

\* C2's case: an interactive run in which d <n> and then da made delete_file
\* calls, and a failed call among them.
C2_Witness ==
    /\ \E i, j \in Calls : i < j /\ calls[i].cmd = "d" /\ calls[j].cmd = "da"
                            /\ calls[i].gi = calls[j].gi
    /\ \E i \in Calls : ~calls[i].ok
    /\ fs[keep_file].exists

\* C3 as stated: with oldest (newest), the kept file has the earliest (latest)
\* modification time of the readable members, and among the members of that
\* modification time it is the first in the paths' lexical order.
C3_KeptFileIsLexicallyFirstOnTies ==
    (JustDecided /\ keep_strategy \in {"oldest", "newest"}) =>
        /\ keep_file \in ReadableMembers
        /\ \A q \in ReadableMembers \ {keep_file} :
              \/ keep_strategy = "oldest" /\ fs[keep_file].mtime < fs[q].mtime
              \/ keep_strategy = "newest" /\ fs[keep_file].mtime > fs[q].mtime
              \/ fs[keep_file].mtime = fs[q].mtime /\ LexLess(keep_file, q)

\* C3 as amended: with oldest (newest), the kept file has the earliest (latest)
\* modification time of the readable members, and among the members of that
\* modification time it is the first in the order of the group's list.
C3_KeptFileIsFirstInListOnTies ==
    (JustDecided /\ keep_strategy \in {"oldest", "newest"}) =>
        /\ keep_file \in ReadableMembers
        /\ \A q \in ReadableMembers \ {keep_file} :
              \/ keep_strategy = "oldest" /\ fs[keep_file].mtime < fs[q].mtime
              \/ keep_strategy = "newest" /\ fs[keep_file].mtime > fs[q].mtime
              \/ /\ fs[keep_file].mtime = fs[q].mtime
                 /\ IndexOf(group.v, keep_file) < IndexOf(group.v, q)

\* C3's case: newest has chosen among three readable members, two of them of the
\* latest modification time, the kept one not the lexically first of the two.
C3_Witness ==
    /\ JustDecided /\ keep_strategy = "newest"
    /\ Cardinality(ReadableMembers) = 3
    /\ \E q, r \in ReadableMembers :
          /\ q # keep_file /\ fs[q].mtime = fs[keep_file].mtime /\ LexLess(q, keep_file)
          /\ fs[r].mtime < fs[keep_file].mtime

\* C4: in the run main dispatches for --delete auto-shortest, the kept file of
\* every group is a readable member of minimal path length, and the other
\* readable members are the files to remove.
C4_ShortestPathIsKept ==
    (JustDecided /\ delete_arg = "auto-shortest") =>
        /\ keep_file \in ReadableMembers
        /\ \A q \in ReadableMembers : Len(keep_file) <= Len(q)
        /\ {info[i].path : i \in FirstToRemove..Len(info)} = ReadableMembers \ {keep_file}

\* The calls made in trash mode (use_trash is one value for the whole run).
TrashCalls == {i \in Calls : use_trash}

\* C5: a delete_file(path, use_trash=True) call that returned success left no
\* file at path and a file of the same content at the trash path of its message,
\* and one that failed returned False with an error message.
C5_TrashedFileIsMoved ==
    \A i \in TrashCalls :
        IF calls[i].ok
        THEN /\ ~fs[calls[i].path].exists
             /\ calls[i].msg = "Moved to trash"
             /\ [name |-> calls[i].trash_path, content |-> calls[i].content] \in trash
             /\ Cardinality({e \in trash : e.name = calls[i].trash_path}) = 1
        ELSE /\ calls[i].msg = "Error"
             /\ calls[i].trash_path = NoPath

\* C5's case: in trash mode, a call that succeeded and, after it, a call on a
\* file that exists which failed.
C5_Witness ==
    \E i, j \in TrashCalls :
        /\ i < j /\ calls[i].ok /\ ~calls[j].ok
        /\ fs[calls[j].path].exists

\* C6: every trash path was free when it was chosen, it is timestamp_name or
\* timestamp_counter_name, the files deleted are at trash paths that differ,
\* and each is still in the trash with its content.
C6_TrashPathsAreUnique ==
    /\ \A i \in TrashCalls : calls[i].ok =>
          /\ calls[i].fresh
          /\ LET ts == Timestamp(calls[i].second)
                 filename == Basename(calls[i].path)
             IN  \/ calls[i].trash_path = TrashName(ts, filename)
                 \/ \E counter \in 1..Len(calls) :
                       /\ calls[i].trash_path = TrashNameCounted(ts, counter, filename)
                       /\ InTrash(trash, TrashName(ts, filename))
                       /\ \A c \in 1..(counter - 1) :
                             InTrash(trash, TrashNameCounted(ts, c, filename))
          /\ [name |-> calls[i].trash_path, content |-> calls[i].content] \in trash
    /\ \A i, j \in TrashCalls :
          (i # j /\ calls[i].ok /\ calls[j].ok) => calls[i].trash_path # calls[j].trash_path

\* C6's case: three files of one base name deleted within one second, the third
\* of which got the counter 2.
C6_Witness ==
    \E i \in TrashCalls :
        /\ calls[i].ok
        /\ calls[i].trash_path =
              TrashNameCounted(Timestamp(calls[i].second), 2, Basename(calls[i].path))

\* The members of group g that were there when the group was processed: those
\* still there and those a delete_file call has removed since.
ReadableAtDecision(g) ==
    {p \in Range(order[g].v) :
        fs[p].exists \/ \E i \in Calls : calls[i].path = p /\ calls[i].ok}

\* C7: at decision time, in auto_delete and in interactive_delete, a member whose
\* metadata cannot be read is not among the members listed, and no delete_file
\* call is made for a group of which at most one member can be read.
C7_UnreadableMembersAreExcluded ==
    /\ JustDecided => \A i \in 1..Len(info) : fs[info[i].path].exists
    /\ \A i \in Calls : Cardinality(ReadableAtDecision(calls[i].gi)) >= 2

\* The calls of the batch loop over the group being processed.
Batch == SelectSeq(calls, LAMBDA c : c.gi = gi /\ c.cmd \in {"auto", "da"})

\* The sizes credited for the calls that succeeded.
Credited == [i \in Calls |-> IF calls[i].ok THEN calls[i].file_size ELSE 0]

\* C8: a batch (auto_delete's loop, or da's) attempts every file to remove once,
\* in order, whatever calls failed; files_deleted is the number of calls that
\* succeeded, and space_freed grew for those calls only.
C8_BatchContinuesAfterFailure ==
    /\ pc \in {"auto_loop", "da_loop"} =>
          /\ Len(Batch) = todo - 2
          /\ \A k \in 1..Len(Batch) :
                Batch[k].path = info[k + 1].path /\ Batch[k].index = k + 1
    /\ files_deleted = Cardinality({i \in Calls : calls[i].ok})
    /\ space_freed = Sum(Credited, Len(calls))

\* C8's case: a batch over three files is over; its first call failed on a file
\* that exists and the two after it succeeded.
C8_Witness ==
    /\ pc \in {"auto_loop", "da_loop"}
    /\ todo > Len(info)
    /\ Len(Batch) = 3
    /\ ~Batch[1].ok /\ fs[Batch[1].path].exists
    /\ Batch[2].ok /\ Batch[3].ok
    /\ files_deleted = 2

\* The command that a step has just read, when it has read one.
Reads(c) == typed' # typed /\ typed'[Len(typed')].cmd = c

\* The step makes no delete_file call and changes neither the file system nor
\* the totals.
DeletesNothing ==
    /\ calls' = calls /\ fs' = fs /\ trash' = trash
    /\ files_deleted' = files_deleted /\ space_freed' = space_freed

\* The delete_file calls that succeeded.
Succeeded == {i \in Calls : calls[i].ok}

\* Once q was typed the function has returned: it reads no further command and
\* makes no further call, and what it returned are the totals of the
\* successful deletions made before q.
QuitHasReturned ==
    \A i \in 1..Len(typed) :
        typed[i].cmd = "q" =>
            /\ i = Len(typed)
            /\ pc = "done"
            /\ files_deleted = Cardinality(Succeeded)
            /\ space_freed = Sum(Credited, Len(calls))
            /\ \A j \in Calls : calls[j].gi <= gi

\* What the step that reads q, s or d 0 does.
CommandStep ==
    /\ Reads("q") => DeletesNothing /\ pc' = "done"
    /\ Reads("s") => DeletesNothing /\ pc' = "interactive" /\ gi' = gi + 1
    /\ (Reads("d") /\ typed'[Len(typed')].num = 0)
          => DeletesNothing /\ pc' = "prompt" /\ gi' = gi
    /\ (typed # <<>> /\ typed[Len(typed)].cmd = "q") => DeletesNothing

\* C12: in interactive_delete, under every sequence of commands: once q is
\* typed no further delete_file call is made, for the current or any later
\* group, and the totals accumulated so far are returned, files_deleted being
\* the number of successful deletions made before q; s moves to the next group
\* without a deletion; d 0 is rejected without a deletion.
C12_QuitSkipAndKeptIndex == [](QuitHasReturned) /\ [][CommandStep]_vars

\* C12's case: d 0 was typed, then a d <n> that deleted a file, then q, in the
\* first of several groups.
C12_Witness ==
    /\ pc = "done"
    /\ Len(typed) = 3
    /\ typed[1].cmd = "d" /\ typed[1].num = 0
    /\ typed[2].cmd = "d" /\ files_deleted = 1
    /\ typed[3].cmd = "q"
    /\ gi < Len(order)

\* The members of the g-th group that were on disk when the group was
\* processed: those still there, and those a delete_file call has removed.
OnDiskWhenProcessed(g) ==
    {p \in Range(order[g].v) :
        fs[p].exists \/ \E i \in Succeeded : calls[i].path = p /\ calls[i].gi = g}

\* C13: when a deletion run has finished, every group that had a member on
\* disk when it was processed still has a member on disk, also when members
\* were removed between the scan and the decision.
C13_LastCopyIsNeverRemoved ==
    pc = "done" =>
        \A g \in 1..Len(order) :
            OnDiskWhenProcessed(g) # {} => \E p \in Range(order[g].v) : fs[p].exists

(***************************************************************************)
(* Claims about write_results (SpecReport).                                *)
(***************************************************************************)
\* The position of the group of digest h in the dict dups.
KeyIndex(dups, h) == CHOOSE i \in 1..Len(dups) : dups[i].k = h

\* The report holds the groups of the dict, each with the members of its list.
ReportHoldsTheGroups ==
    /\ Len(report.groups) = Len(duplicates)
    /\ \A i \in 1..Len(duplicates) : \E j \in 1..Len(report.groups) :
          /\ report.groups[j].hash = duplicates[i].k
          /\ Len(report.groups[j].members) = Len(duplicates[i].v)
          /\ {report.groups[j].members[m].path : m \in 1..Len(duplicates[i].v)}
                = Range(duplicates[i].v)

\* C9 as stated: the groups are written by descending member count, ties by
\* digest in lexical order; the members of a group by ascending modification
\* time, ties by path in lexical order.
C9_OrderIsAFunctionOfTheGroups ==
    pc = "reported" =>
        /\ \A i \in 1..(Len(report.groups) - 1) :
              LET a == report.groups[i]
                  b == report.groups[i + 1]
              IN  \/ Len(a.members) > Len(b.members)
                  \/ Len(a.members) = Len(b.members) /\ LexLess(a.hash, b.hash)
        /\ \A i \in 1..Len(report.groups) :
              LET ms == report.groups[i].members IN
              \A j \in 1..(Len(ms) - 1) :
                  \/ ms[j].mtime < ms[j + 1].mtime
                  \/ ms[j].mtime = ms[j + 1].mtime /\ LexLess(ms[j].path, ms[j + 1].path)

\* C9 as amended: the groups are written by descending member count, ties in the
\* order of the dict passed in; the members of a group by ascending modification
\* time as read (0 for a member whose metadata cannot be read), ties in the order
\* of the group's list.
C9_OrderFollowsTheInputOnTies ==
    pc = "reported" =>
        /\ ReportHoldsTheGroups
        /\ \A i \in 1..(Len(report.groups) - 1) :
              LET a == report.groups[i]
                  b == report.groups[i + 1]
              IN  \/ Len(a.members) > Len(b.members)
                  \/ /\ Len(a.members) = Len(b.members)
                     /\ KeyIndex(duplicates, a.hash) < KeyIndex(duplicates, b.hash)
        /\ \A i \in 1..Len(report.groups) :
              LET ms == report.groups[i].members
                  paths == Get(duplicates, report.groups[i].hash)
              IN  /\ \A j \in 1..Len(ms) : ms[j] = WithMtime(fs, ms[j].path)
                  /\ \A j \in 1..(Len(ms) - 1) :
                        \/ ms[j].mtime < ms[j + 1].mtime
                        \/ /\ ms[j].mtime = ms[j + 1].mtime
                           /\ IndexOf(paths, ms[j].path) < IndexOf(paths, ms[j + 1].path)

\* C9's case: a report of two groups of equal member count, written in the dict's
\* order against the digests' lexical order, one of them with two members of
\* equal modification time written against the paths' lexical order.
C9_Witness ==
    /\ pc = "reported"
    /\ Len(report.groups) = 2
    /\ Len(report.groups[1].members) = Len(report.groups[2].members)
    /\ LexLess(report.groups[2].hash, report.groups[1].hash)
    /\ \E i \in 1..2 :
          LET ms == report.groups[i].members IN
          /\ ms[1].mtime = ms[2].mtime /\ ms[1].mtime > 0
          /\ LexLess(ms[2].path, ms[1].path)

\* The size of the files of digest h.
SizeOfDigest(h) == Len(CHOOSE c \in Contents : Md5(c) = h)

\* C10 as stated: for a non-empty dict the report gives the number of groups, the
\* sum of (member count - 1) and the sum of (the members' common size) x (member
\* count - 1), also when a member's metadata cannot be read.
C10_TotalsAreThoseOfTheGroups ==
    (pc = "reported" /\ duplicates # <<>>) =>
        /\ report.total_groups = Len(duplicates)
        /\ report.total_duplicates =
              Sum([i \in 1..Len(duplicates) |-> Len(duplicates[i].v) - 1], Len(duplicates))
        /\ report.total_wasted =
              Sum([i \in 1..Len(duplicates) |->
                      SizeOfDigest(duplicates[i].k) * (Len(duplicates[i].v) - 1)],
                  Len(duplicates))

=============================================================================
